---- MODULE Spec2Model ----
(***************************************************************************)
(* net-scout: detection runs (scout.py), alert persistence, the enrichment *)
(* utility (enrich.py) with its lookup cache, and the operator's status    *)
(* actions (ui.py), modelled as processes over one SQLite store.           *)
(*                                                                         *)
(* Encoding.  IP addresses are naturals (NULL is 0, no real address).      *)
(* Timestamps are ticks of a clock; an ISO string is its tick, and SQLite's*)
(* date() of it is the tick divided by TicksPerDay.  A JSON object is the  *)
(* ordered list of its (path, leaf) entries; a JSON column is a record     *)
(* saying whether it is SQL NULL.  A provider result is "data" (a usable   *)
(* answer), "None" (Python None) or "error" (an error payload).            *)
(***************************************************************************)
EXTENDS Integers, Sequences, FiniteSets, TLC

(* ------------------------------ bounds --------------------------------- *)
MaxClock == 2
TicksPerDay == 2
MaxAlerts == 2
MaxBadKinds == 1
MaxRunCap == 2
MaxLines == 2
MaxHop == 2
MaxTokens == 3
MaxGeoEvents == 2
MaxConnsPerDst == 4

(* ------------------------- program constants --------------------------- *)
HORIZONTAL_DST_IP_THRESHOLD == 50
HORIZONTAL_CONN_THRESHOLD == 200
VERTICAL_PORTS_THRESHOLD == 50
REPEATED_CONN_THRESHOLD == 200
RULE_LIMIT == 200
MAX_ALERTS_PER_RUN == 500
TRACEROUTE_TIMEOUT == 10
WHOIS_TIMEOUT == 8
PDNS_TIMEOUT == 8
NO_TIMEOUT == 0

NULL == 0
SrcA == 5
SrcB == 6
DstBase == 100

Min(a, b) == IF a < b THEN a ELSE b

(* --------------------------- the event log ----------------------------- *)
(* A flow group stands for the events of one source towards the            *)
(* destinations DstBase+1 .. DstBase+ndst: conns events per destination,   *)
(* over ports distinct destination ports, all stamped ts.  An event log    *)
(* holds at most one flow group per source.                                *)
Quiet == [src |-> SrcA, ndst |-> 1, conns |-> 1, ports |-> 1, ts |-> 0]
HScan == [src |-> SrcA, ndst |-> 51, conns |-> 1, ports |-> 1, ts |-> 0]
VScan == [src |-> SrcA, ndst |-> 1, conns |-> 51, ports |-> 51, ts |-> 0]
Volume == [src |-> SrcA, ndst |-> 1, conns |-> 201, ports |-> 1, ts |-> 0]
EventLogs == {{Quiet}, {HScan}, {VScan}, {Volume}}

VARIABLES clock, ip_events, config, net, alerts_table, alerts, cache,
          scan, enr, providerCalls

(* db_exists: the database file is there (os.path.exists(DB_PATH)).        *)
(* broken: the rules whose query raises sqlite3.Error on this store.       *)
VARIABLES db_exists, broken

(* Results of calling library functions directly: last_set records, per    *)
(* cache key, the last result handed to cache_set and how often the key    *)
(* was written; rules_out is what run_all_rules returned; raw_text is the  *)
(* text given to parse_traceroute_text and hops what came back.            *)
VARIABLES last_set, rules_out, raw_text, hops

(* geo_events: the rows of ip_events with their endpoints as the trace     *)
(* prints them and their geography columns; located: the hops as           *)
(* geo_enrich_hops leaves them.                                            *)
VARIABLES geo_events, located

store == <<alerts_table, alerts, cache>>
env == <<ip_events, config, net, db_exists, broken>>
bench == <<last_set, rules_out, raw_text, hops, geo_events, located>>
vars == <<clock, ip_events, config, net, alerts_table, alerts, cache,
          scan, enr, providerCalls, db_exists, broken,
          last_set, rules_out, raw_text, hops, geo_events, located>>

ScanProcs == {"scan1", "scan2"}
EnrichProcs == {"enrich1", "enrich2"}

(* ------------------------------ time ----------------------------------- *)
SqlDate(created_at) == created_at \div TicksPerDay
SinceWindows == {0, MaxClock}
parse_since_arg(now, w) == now - w

(* ------------------------------ JSON ----------------------------------- *)
SqlNull == [isnull |-> TRUE, obj |-> <<>>]
JsonObj(o) == [isnull |-> FALSE, obj |-> o]
JsonDumps(v) == IF v = "None" THEN "null" ELSE "'" \o v \o "'"
JsonLoads(t) ==
    CASE t = "null" -> "None"
      [] t = "'data'" -> "data"
      [] t = "'error'" -> "error"
      [] OTHER -> "RAISE"

(* ------------------- aggregate queries of the rules -------------------- *)
InWindow(since) == {g \in ip_events : g.ts >= since}
SrcsIn(G) == {g.src : g \in G}
GroupOf(G, s) == CHOOSE g \in G : g.src = s
DstCount(G, s) == GroupOf(G, s).ndst
ConnCount(G, s) == GroupOf(G, s).ndst * GroupOf(G, s).conns

(* the ordering cut at its head: the last limit rows are the ones returned *)
OrderedLimited_keeping_last(S, before, limit) ==
    LET n == Cardinality(S)
        perms == {q \in [1..n -> S] :
                     /\ \A i, j \in 1..n : i # j => q[i] # q[j]
                     /\ \A i, j \in 1..n : i < j => <<q[j], q[i]>> \notin before}
    IN {SubSeq(q, n - Min(n, limit) + 1, n) : q \in perms}
(* every ordering of S that is descending by the relation before, cut to limit rows *)
OrderedLimited(S, before, limit) ==
    LET n == Cardinality(S)
        perms == {q \in [1..n -> S] :
                     /\ \A i, j \in 1..n : i # j => q[i] # q[j]
                     /\ \A i, j \in 1..n : i < j => <<q[j], q[i]>> \notin before}
    IN {SubSeq(q, 1, Min(n, limit)) : q \in perms}

(* the HAVING clause with >= in place of > *)
HorizRows_at_threshold(since) ==
    LET G == InWindow(since)
    IN {[src_ip |-> s, dst_count |-> DstCount(G, s), conn_count |-> ConnCount(G, s)] :
          s \in {x \in SrcsIn(G) :
                   \/ DstCount(G, x) >= HORIZONTAL_DST_IP_THRESHOLD
                   \/ ConnCount(G, x) >= HORIZONTAL_CONN_THRESHOLD}}
HorizRows(since) ==
    LET G == InWindow(since)
    IN {[src_ip |-> s, dst_count |-> DstCount(G, s), conn_count |-> ConnCount(G, s)] :
          s \in {x \in SrcsIn(G) :
                   \/ DstCount(G, x) > HORIZONTAL_DST_IP_THRESHOLD
                   \/ ConnCount(G, x) > HORIZONTAL_CONN_THRESHOLD}}
HorizBefore(a, b) ==
    \/ a.dst_count > b.dst_count
    \/ a.dst_count = b.dst_count /\ a.conn_count > b.conn_count
(* the horizontal score without its cap *)
HorizAlert_uncapped(r, since) ==
    [alert_type |-> "horizontal_scan", src_ip |-> r.src_ip, dst_ip |-> NULL,
     score |-> r.dst_count + r.conn_count \div 10,
     evidence |-> <<[path |-> <<"dst_count">>, value |-> r.dst_count],
                    [path |-> <<"conn_count">>, value |-> r.conn_count],
                    [path |-> <<"since">>, value |-> since]>>]
HorizAlert(r, since) ==
    [alert_type |-> "horizontal_scan", src_ip |-> r.src_ip, dst_ip |-> NULL,
     score |-> Min(100, r.dst_count + r.conn_count \div 10),
     evidence |-> <<[path |-> <<"dst_count">>, value |-> r.dst_count],
                    [path |-> <<"conn_count">>, value |-> r.conn_count],
                    [path |-> <<"since">>, value |-> since]>>]
detect_horizontal_scans(since) ==
    {[i \in DOMAIN q |-> HorizAlert(q[i], since)] :
        q \in OrderedLimited(HorizRows(since),
                          {x \in HorizRows(since) \X HorizRows(since) : HorizBefore(x[1], x[2])},
                          RULE_LIMIT)}

VertRows(since) ==
    LET G == InWindow(since)
    IN UNION {{[src_ip |-> g.src, dst_ip |-> DstBase + d, ports |-> g.ports] :
                 d \in 1..g.ndst} :
              g \in {x \in G : x.ports > VERTICAL_PORTS_THRESHOLD}}
VertBefore(a, b) == a.ports > b.ports
VertAlert(r, since) ==
    [alert_type |-> "vertical_scan", src_ip |-> r.src_ip, dst_ip |-> r.dst_ip,
     score |-> Min(100, r.ports),
     evidence |-> <<[path |-> <<"ports">>, value |-> r.ports],
                    [path |-> <<"since">>, value |-> since]>>]
detect_vertical_scans(since) ==
    {[i \in DOMAIN q |-> VertAlert(q[i], since)] :
        q \in OrderedLimited(VertRows(since),
                          {x \in VertRows(since) \X VertRows(since) : VertBefore(x[1], x[2])},
                          RULE_LIMIT)}

RepRows(since) ==
    LET G == InWindow(since)
    IN {[src_ip |-> s, total_conns |-> ConnCount(G, s)] :
          s \in {x \in SrcsIn(G) : ConnCount(G, x) > REPEATED_CONN_THRESHOLD}}
RepBefore(a, b) == a.total_conns > b.total_conns
RepAlert(r, since) ==
    [alert_type |-> "high_connection_volume", src_ip |-> r.src_ip, dst_ip |-> NULL,
     score |-> Min(100, r.total_conns \div 2),
     evidence |-> <<[path |-> <<"total_conns">>, value |-> r.total_conns],
                    [path |-> <<"since">>, value |-> since]>>]
detect_repeated_connections(since) ==
    {[i \in DOMAIN q |-> RepAlert(q[i], since)] :
        q \in OrderedLimited(RepRows(since),
                          {x \in RepRows(since) \X RepRows(since) : RepBefore(x[1], x[2])},
                          RULE_LIMIT)}

(* ------------------------------ rules.py ------------------------------- *)
(* The same three queries, with the row limit as a parameter.              *)
rules_detect_horizontal_scans(since, limit) ==
    {[i \in DOMAIN q |-> HorizAlert(q[i], since)] :
        q \in OrderedLimited(HorizRows(since),
                          {x \in HorizRows(since) \X HorizRows(since) : HorizBefore(x[1], x[2])},
                          limit)}
rules_detect_vertical_scans(since, limit) ==
    {[i \in DOMAIN q |-> VertAlert(q[i], since)] :
        q \in OrderedLimited(VertRows(since),
                          {x \in VertRows(since) \X VertRows(since) : VertBefore(x[1], x[2])},
                          limit)}
rules_detect_repeated_connections(since, limit) ==
    {[i \in DOMAIN q |-> RepAlert(q[i], since)] :
        q \in OrderedLimited(RepRows(since),
                          {x \in RepRows(since) \X RepRows(since) : RepBefore(x[1], x[2])},
                          limit)}

(* the dedupe loop of run_all_rules: the first alert of each key stays *)
AlertKey(a) == <<a.alert_type, a.src_ip, a.dst_ip>>
RECURSIVE Deduped(_, _, _)
Deduped(all, i, seen) ==
    IF i > Len(all) THEN <<>>
    ELSE IF AlertKey(all[i]) \in seen THEN Deduped(all, i + 1, seen)
    ELSE <<all[i]>> \o Deduped(all, i + 1, seen \cup {AlertKey(all[i])})
run_all_rules(since, max_alerts) ==
    {Deduped(h \o v \o r, 1, {}) :
        h \in rules_detect_horizontal_scans(since, max_alerts),
        v \in rules_detect_vertical_scans(since, max_alerts),
        r \in rules_detect_repeated_connections(since, max_alerts)}

(* ------------------------- the alerts table ---------------------------- *)
(* ux_scout_alerts_unique: SQLite treats NULLs in a unique index as        *)
(* distinct, so a key column that is NULL never conflicts.                 *)
SqlEq(a, b) == a # NULL /\ b # NULL /\ a = b
UniqueConflict(row, alert, now) ==
    /\ row.alert_type = alert.alert_type
    /\ SqlEq(row.src_ip, alert.src_ip)
    /\ SqlEq(row.dst_ip, alert.dst_ip)
    /\ SqlDate(row.created_at) = SqlDate(now)

EnrichmentColumn(alert) ==
    IF alert.enrichment = <<>> THEN SqlNull ELSE JsonObj(alert.enrichment)

NewRow(tbl, alert, now) ==
    [id |-> Len(tbl) + 1, alert_type |-> alert.alert_type,
     src_ip |-> alert.src_ip, dst_ip |-> alert.dst_ip, score |-> alert.score,
     evidence_json |-> JsonObj(alert.evidence),
     enrichment_json |-> EnrichmentColumn(alert),
     status |-> "new", created_at |-> now]

(* insert_alert without the early return of the dry-run branch *)
insert_alert_ignoring_dry_run(tbl, alert, dry_run, now) ==
    IF \E i \in DOMAIN tbl : UniqueConflict(tbl[i], alert, now)
    THEN [tbl |-> tbl, out |-> "SKIPPED"]
    ELSE [tbl |-> Append(tbl, NewRow(tbl, alert, now)), out |-> "INSERTED"]

(* the table after insert_alert, and what it prints *)
insert_alert(tbl, alert, dry_run, now) ==
    IF dry_run THEN [tbl |-> tbl, out |-> "DRY RUN"]
    ELSE IF \E i \in DOMAIN tbl : UniqueConflict(tbl[i], alert, now)
         THEN [tbl |-> tbl, out |-> "SKIPPED"]
         ELSE [tbl |-> Append(tbl, NewRow(tbl, alert, now)), out |-> "INSERTED"]

(* ------------------------ external providers --------------------------- *)
(* net says, per provider kind, how the outside world treats its calls:    *)
(* it answers, it fails (binary missing, network error, non-200), or it    *)
(* never answers.                                                          *)
Outcomes == {"answer", "fail", "hang"}
ProviderKinds == {"rdns", "whois", "traceroute", "pdns"}
Nets == {n \in [ProviderKinds -> Outcomes] :
            Cardinality({k \in ProviderKinds : n[k] # "answer"}) <= MaxBadKinds}
FailValue(kind) == IF kind \in {"rdns", "whois"} THEN "None" ELSE "error"
ProviderTimeout(kind) ==
    CASE kind = "rdns" -> NO_TIMEOUT
      [] kind = "whois" -> WHOIS_TIMEOUT
      [] kind = "traceroute" -> TRACEROUTE_TIMEOUT
      [] kind = "pdns" -> PDNS_TIMEOUT
(* provider functions that let the failure escape as an exception *)
ProviderReturn_raising(kind, o) ==
    CASE o = "answer" -> "data"
      [] o = "hang" /\ ProviderTimeout(kind) = NO_TIMEOUT -> "HANG"
      [] OTHER -> "RAISE"

(* the value a provider function returns; "HANG" when it never returns *)
ProviderReturn(kind, o) ==
    CASE o = "answer" -> "data"
      [] o = "hang" /\ ProviderTimeout(kind) = NO_TIMEOUT -> "HANG"
      [] OTHER -> FailValue(kind)

(* the last two store / network operations of a process *)
NoOp == [op |-> "none", kind |-> "", subject |-> NULL]
Op(o, kind, subject) == [op |-> o, kind |-> kind, subject |-> subject]
Did(ops, o) == <<ops[2], o>>
Count2(n) == Min(2, n + 1)

(* --------------------------- run_scan ---------------------------------- *)
ScanIdle ==
    [pc |-> "idle", dry_run |-> FALSE, enrich |-> FALSE, since |-> 0,
     all_alerts |-> <<>>, i |-> 0, calls |-> <<>>, enrichment |-> <<>>,
     ops |-> <<NoOp, NoOp>>, unslept |-> 0, out |-> "none"]

Candidate(r) ==
    [alert_type |-> r.alert_type, src_ip |-> r.src_ip, dst_ip |-> r.dst_ip,
     score |-> r.score, evidence |-> r.evidence, enrichment |-> <<>>]
(* the horizontal rule's results appended twice *)
Candidates_repeating_horizontal(since) ==
    {[i \in DOMAIN q |-> Candidate(q[i])] :
       q \in {h \o h \o v \o r : h \in detect_horizontal_scans(since),
                                 v \in detect_vertical_scans(since),
                                 r \in detect_repeated_connections(since)}}
Candidates(since) ==
    {[i \in DOMAIN q |-> Candidate(q[i])] :
       q \in {h \o v \o r : h \in detect_horizontal_scans(since),
                            v \in detect_vertical_scans(since),
                            r \in detect_repeated_connections(since)}}

Call(field, kind, subject) == [field |-> field, kind |-> kind, subject |-> subject]
ScanCallPlan(a) ==
    (IF a.src_ip # NULL THEN <<Call("src_rdns", "rdns", a.src_ip)>> ELSE <<>>)
    \o (IF a.dst_ip # NULL THEN <<Call("dst_rdns", "rdns", a.dst_ip)>> ELSE <<>>)
    \o (IF a.src_ip # NULL
        THEN <<Call("src_whois", "whois", a.src_ip),
               Call("src_traceroute", "traceroute", a.src_ip)>> ELSE <<>>)
    \o (IF a.dst_ip # NULL
        THEN <<Call("dst_whois", "whois", a.dst_ip),
               Call("dst_traceroute", "traceroute", a.dst_ip)>> ELSE <<>>)

(* top of the loop over all_alerts; the last line printed stays on the    *)
(* terminal after the run                                                 *)
ScanBeginAlert(s) ==
    IF s.i > Len(s.all_alerts) THEN [ScanIdle EXCEPT !.out = s.out]
    ELSE IF ~s.enrich THEN [s EXCEPT !.pc = "insert", !.enrichment = <<>>]
    ELSE LET plan == ScanCallPlan(s.all_alerts[s.i])
         IN [s EXCEPT !.pc = IF plan = <<>> THEN "sleep" ELSE "call",
                      !.calls = plan, !.enrichment = <<>>]

(* os.path.exists(DB_PATH), always answering yes *)
StoreFound_always == TRUE
StoreFound == db_exists
RuleNames == {"horizontal_scan", "vertical_scan", "high_connection_volume"}

(* Up to the loop over all_alerts.  A missing database ends the run at     *)
(* once.  The rules are called with no try around them: the sqlite3.Error  *)
(* of a failing query leaves run_scan as a traceback, after the migration. *)
ScanStart(p, w, enrich, dry) ==
    /\ scan[p].pc = "idle"
    /\ IF ~StoreFound
       THEN /\ scan' = [scan EXCEPT ![p] = [ScanIdle EXCEPT !.out = "DB not found"]]
            /\ UNCHANGED alerts_table
       ELSE /\ alerts_table' = (alerts_table \/ ~dry)
            /\ LET since == parse_since_arg(clock, w)
               IN IF broken # {}
                  THEN scan' = [scan EXCEPT ![p] =
                                   [ScanIdle EXCEPT !.out = "Traceback", !.since = since]]
                  ELSE \E cands \in Candidates(since) :
                         scan' = [scan EXCEPT ![p] =
                            ScanBeginAlert([ScanIdle EXCEPT !.dry_run = dry,
                                               !.enrich = enrich, !.since = since,
                                               !.all_alerts = cands, !.i = 1])]
    /\ UNCHANGED <<clock, env, bench, alerts, cache, enr, providerCalls>>

ScanCall(p) ==
    /\ scan[p].pc = "call"
    /\ LET s == scan[p]
           c == Head(s.calls)
           v == ProviderReturn(c.kind, net[c.kind])
           t == [s EXCEPT !.ops = Did(s.ops, Op("call", c.kind, c.subject)),
                          !.unslept = Count2(s.unslept)]
       IN scan' = [scan EXCEPT ![p] =
              IF v = "HANG" THEN [t EXCEPT !.pc = "hung"]
              ELSE [t EXCEPT !.enrichment = Append(s.enrichment,
                                              [path |-> <<c.field>>, value |-> v]),
                             !.calls = Tail(s.calls),
                             !.pc = IF Tail(s.calls) = <<>> THEN "sleep" ELSE "call"]]
    /\ UNCHANGED <<clock, env, bench, store, enr, providerCalls>>

ScanSleep(p) ==
    /\ scan[p].pc = "sleep"
    /\ LET s == scan[p]
       IN scan' = [scan EXCEPT ![p] =
              [s EXCEPT !.pc = "insert",
                        !.all_alerts[s.i].enrichment = s.enrichment,
                        !.ops = Did(s.ops, Op("sleep", "", NULL)),
                        !.unslept = 0]]
    /\ UNCHANGED <<clock, env, bench, store, enr, providerCalls>>

ScanInsert(p) ==
    /\ scan[p].pc = "insert"
    /\ LET s == scan[p]
           a == s.all_alerts[s.i]
           res == insert_alert(alerts, a, s.dry_run, clock)
       IN /\ Len(res.tbl) <= MaxAlerts
          /\ alerts' = res.tbl
          /\ scan' = [scan EXCEPT ![p] =
                 ScanBeginAlert([s EXCEPT !.i = s.i + 1, !.out = res.out,
                                    !.ops = Did(s.ops, Op("insert", "", NULL))])]
    /\ UNCHANGED <<clock, env, bench, alerts_table, cache, enr, providerCalls>>

(* ----------------------- the enrichment cache -------------------------- *)
(* scout_enrichment_cache: rows keyed by the UNIQUE column subject, which  *)
(* holds kind ":" subject; the key is kept as the pair <<kind, subject>>.  *)
(* The column updated_at is written and never read back by enrich.py; it   *)
(* is left out of the rows.                                                *)
SubjectKey(kind, subject) == <<kind, subject>>
(* cache_get that reports a stored null as no entry *)
cache_get_dropping_null(tbl, key) ==
    IF \E r \in tbl : r.subject = key /\ JsonLoads(r.result_json) \notin {"RAISE", "None"}
    THEN [found |-> TRUE,
          result |-> JsonLoads((CHOOSE x \in tbl : x.subject = key).result_json)]
    ELSE [found |-> FALSE, result |-> "None"]

cache_get(tbl, key) ==
    IF \E r \in tbl : r.subject = key
    THEN LET r == CHOOSE x \in tbl : x.subject = key
         IN IF JsonLoads(r.result_json) = "RAISE" THEN [found |-> FALSE, result |-> "None"]
            ELSE [found |-> TRUE, result |-> JsonLoads(r.result_json)]
    ELSE [found |-> FALSE, result |-> "None"]
(* cache_set as INSERT OR IGNORE: the first write of a key stays *)
cache_set_keeping_first(tbl, key, kind, result) ==
    IF \E r \in tbl : r.subject = key THEN tbl
    ELSE tbl \cup {[subject |-> key, kind |-> kind, result_json |-> JsonDumps(result)]}
cache_set(tbl, key, kind, result) ==
    {r \in tbl : r.subject # key}
      \cup {[subject |-> key, kind |-> kind, result_json |-> JsonDumps(result)]}

(* --------------------------- enrich.py --------------------------------- *)
Kinds == <<"rdns", "whois", "traceroute", "pdns">>
(* config.py's defaults with and without passive-DNS credentials, and a   *)
(* configuration with whois and traceroute switched off                    *)
DefaultConfig == [rdns |-> TRUE, whois |-> TRUE, traceroute |-> TRUE, pdns |-> FALSE]
WithCredentials == [rdns |-> TRUE, whois |-> TRUE, traceroute |-> TRUE, pdns |-> TRUE]
LeanConfig == [rdns |-> TRUE, whois |-> FALSE, traceroute |-> FALSE, pdns |-> FALSE]
Configs == {DefaultConfig, WithCredentials, LeanConfig}
(* the guard of each block of enrich_subject; pdns has no ENABLE flag *)
KindRequested(kind) ==
    CASE kind = "rdns" -> config.rdns
      [] kind = "whois" -> config.whois
      [] kind = "traceroute" -> config.traceroute
      [] kind = "pdns" -> TRUE
(* whether the provider function of kind goes out to the network *)
IsExternal(kind) == kind # "pdns" \/ config.pdns
NextKind(k) ==
    LET later == {j \in DOMAIN Kinds : j > k /\ KindRequested(Kinds[j])}
    IN IF later = {} THEN 0 ELSE CHOOSE j \in later : \A l \in later : j <= l

EnrIdle ==
    [pc |-> "idle", rows |-> <<>>, r |-> 0, slot |-> "src", k |-> 0,
     val |-> "None", enrichment |-> <<>>,
     ops |-> <<NoOp, NoOp>>, unslept |-> 0, out |-> "none"]

Subject(e) == IF e.slot = "src" THEN e.rows[e.r].src_ip ELSE e.rows[e.r].dst_ip

(* top of the loop over rows *)
EnrBeginRow(e) ==
    IF e.r > Len(e.rows) THEN EnrIdle
    ELSE LET row == e.rows[e.r]
             f == [e EXCEPT !.enrichment = <<>>]
         IN IF row.src_ip # NULL THEN [f EXCEPT !.slot = "src", !.k = NextKind(0), !.pc = "get"]
            ELSE IF row.dst_ip # NULL
                 THEN [f EXCEPT !.slot = "dst", !.k = NextKind(0), !.pc = "get"]
                 ELSE [f EXCEPT !.pc = "update"]
(* after one block of enrich_subject *)
EnrAdvance(e) ==
    IF NextKind(e.k) # 0 THEN [e EXCEPT !.k = NextKind(e.k), !.pc = "get"]
    ELSE IF e.slot = "src" /\ e.rows[e.r].dst_ip # NULL
         THEN [e EXCEPT !.slot = "dst", !.k = NextKind(0), !.pc = "get"]
         ELSE [e EXCEPT !.pc = "update"]
(* the except clause of the loop body: report and go on with the next row *)
EnrRaise(e) == EnrBeginRow([e EXCEPT !.r = e.r + 1])

Limits == {1, 2}
NeedsEnrichment(row) == row.enrichment_json.isnull
NewerFirst(a, b) == a.created_at > b.created_at
Selected(tbl, limit, alert_id) ==
    LET pick(q) == [i \in DOMAIN q |->
                       [id |-> q[i].id, src_ip |-> q[i].src_ip, dst_ip |-> q[i].dst_ip]]
    IN IF alert_id # NULL
       THEN {pick(SelectSeq(tbl, LAMBDA row : row.id = alert_id))}
       ELSE LET todo == {tbl[i] : i \in {j \in DOMAIN tbl : NeedsEnrichment(tbl[j])}}
            IN {pick(q) : q \in OrderedLimited(todo,
                              {x \in todo \X todo : NewerFirst(x[1], x[2])}, limit)}

(* main of enrich.py up to the loop over the selected rows *)
EnrStart(p, limit, alert_id) ==
    /\ enr[p].pc = "idle"
    /\ IF ~StoreFound
       THEN enr' = [enr EXCEPT ![p] = [EnrIdle EXCEPT !.out = "DB not found"]]
       ELSE IF ~alerts_table THEN enr' = enr
       ELSE \E rows \in Selected(alerts, limit, alert_id) :
              enr' = [enr EXCEPT ![p] = EnrBeginRow([EnrIdle EXCEPT !.rows = rows, !.r = 1])]
    /\ UNCHANGED <<clock, env, bench, store, scan, providerCalls>>

EnrCacheGet(p) ==
    /\ enr[p].pc = "get"
    /\ LET e == enr[p]
           kind == Kinds[e.k]
           cached == cache_get(cache, SubjectKey(kind, Subject(e)))
       IN enr' = [enr EXCEPT ![p] =
              IF cached.found
              THEN EnrAdvance([e EXCEPT
                      !.enrichment = Append(e.enrichment,
                                       [path |-> <<e.slot, kind>>, value |-> cached.result]),
                      !.ops = Did(e.ops, Op("cache_hit", kind, Subject(e)))])
              ELSE [e EXCEPT !.pc = "call",
                             !.ops = Did(e.ops, Op("cache_miss", kind, Subject(e)))]]
    /\ UNCHANGED <<clock, env, bench, store, scan, providerCalls>>

EnrCall(p) ==
    /\ enr[p].pc = "call"
    /\ LET e == enr[p]
           kind == Kinds[e.k]
           key == SubjectKey(kind, Subject(e))
       IN IF ~IsExternal(kind)
          THEN /\ enr' = [enr EXCEPT ![p] =
                      [e EXCEPT !.val = "None", !.pc = "set",
                         !.enrichment = Append(e.enrichment,
                                          [path |-> <<e.slot, kind>>, value |-> "None"])]]
               /\ UNCHANGED providerCalls
          ELSE /\ providerCalls' = [providerCalls EXCEPT ![key] = Count2(@)]
               /\ LET v == ProviderReturn(kind, net[kind])
                      t == [e EXCEPT !.ops = Did(e.ops, Op("call", kind, Subject(e))),
                                     !.unslept = Count2(e.unslept)]
                  IN enr' = [enr EXCEPT ![p] =
                         CASE v = "HANG" -> [t EXCEPT !.pc = "hung"]
                           [] v = "RAISE" -> EnrRaise(t)
                           [] OTHER ->
                                [t EXCEPT !.val = v, !.pc = "set",
                                   !.enrichment = Append(e.enrichment,
                                                    [path |-> <<e.slot, kind>>, value |-> v])]]
    /\ UNCHANGED <<clock, env, bench, store, scan>>

EnrCacheSet(p) ==
    /\ enr[p].pc = "set"
    /\ LET e == enr[p]
           kind == Kinds[e.k]
       IN /\ cache' = cache_set(cache, SubjectKey(kind, Subject(e)), kind, e.val)
          /\ enr' = [enr EXCEPT ![p] =
                 [e EXCEPT !.pc = "sleep",
                           !.ops = Did(e.ops, Op("cache_set", kind, Subject(e)))]]
    /\ UNCHANGED <<clock, env, bench, alerts_table, alerts, scan, providerCalls>>

EnrSleep(p) ==
    /\ enr[p].pc = "sleep"
    /\ LET e == enr[p]
       IN enr' = [enr EXCEPT ![p] =
              EnrAdvance([e EXCEPT !.ops = Did(e.ops, Op("sleep", "", NULL)),
                                   !.unslept = 0])]
    /\ UNCHANGED <<clock, env, bench, store, scan, providerCalls>>

(* the update leaving the status of a row the operator has marked *)
UpdateEnriched_keeping_marking(row, enrichment) ==
    [row EXCEPT !.enrichment_json = JsonObj(enrichment),
                !.status = IF row.status \in {"snoozed", "false_positive"}
                           THEN row.status ELSE "enriched"]
(* the update stamping the time of enrichment into created_at *)
UpdateEnriched_restamping(row, enrichment) ==
    [row EXCEPT !.enrichment_json = JsonObj(enrichment), !.status = "enriched",
                !.created_at = clock]

(* UPDATE scout_alerts SET enrichment_json, status, created_at = created_at *)
UpdateEnriched(row, enrichment) ==
    [row EXCEPT !.enrichment_json = JsonObj(enrichment), !.status = "enriched",
                !.created_at = row.created_at]

EnrUpdate(p) ==
    /\ enr[p].pc = "update"
    /\ LET e == enr[p]
           aid == e.rows[e.r].id
       IN /\ alerts' = [i \in DOMAIN alerts |->
                          IF alerts[i].id = aid THEN UpdateEnriched(alerts[i], e.enrichment)
                          ELSE alerts[i]]
          /\ enr' = [enr EXCEPT ![p] =
                 EnrBeginRow([e EXCEPT !.r = e.r + 1,
                                       !.ops = Did(e.ops, Op("update", "", NULL))])]
    /\ UNCHANGED <<clock, env, bench, alerts_table, cache, scan, providerCalls>>

(* ------------------------ api_snooze_alert ----------------------------- *)
SnoozeActions == {"snooze", "false_positive", "delete"}
SnoozeStatus(action) == IF action = "snooze" THEN "snoozed" ELSE "false_positive"
(* the marking removes the row instead of setting its status *)
SnoozeAlert_deleting(aid, action) ==
    /\ aid # NULL
    /\ action \in {"snooze", "false_positive"}
    /\ alerts_table
    /\ alerts' = SelectSeq(alerts, LAMBDA row : row.id # aid)
    /\ UNCHANGED <<clock, env, bench, alerts_table, cache, scan, enr, providerCalls>>

SnoozeAlert(aid, action) ==
    /\ aid # NULL
    /\ action \in {"snooze", "false_positive"}
    /\ alerts_table
    /\ alerts' = [i \in DOMAIN alerts |->
                    IF alerts[i].id = aid THEN [alerts[i] EXCEPT !.status = SnoozeStatus(action)]
                    ELSE alerts[i]]
    /\ UNCHANGED <<clock, env, bench, alerts_table, cache, scan, enr, providerCalls>>

Tick ==
    /\ clock < MaxClock
    /\ clock' = clock + 1
    /\ UNCHANGED <<env, bench, store, scan, enr, providerCalls>>

(* ------------------------- specifications ------------------------------ *)
Subjects == {SrcA, DstBase + 1}
CacheKeys == {SubjectKey(Kinds[k], s) : k \in DOMAIN Kinds, s \in Subjects}
AllAnswer == [k \in ProviderKinds |-> "answer"]
Unset == [result |-> "unset", writes |-> 0]
NotParsed == [parsed |-> FALSE, raised |-> FALSE, hops |-> <<>>]
NotLocated == [done |-> FALSE, raised |-> FALSE, hops |-> <<>>]
NoRun == [ran |-> FALSE, raised |-> FALSE, since |-> 0, max_alerts |-> 0, alerts |-> <<>>]

Fresh ==
    /\ clock = 0
    /\ alerts_table = FALSE
    /\ alerts = <<>>
    /\ cache = {}
    /\ scan = [p \in ScanProcs |-> ScanIdle]
    /\ enr = [p \in EnrichProcs |-> EnrIdle]
    /\ providerCalls = [key \in CacheKeys |-> 0]
    /\ last_set = [key \in CacheKeys |-> Unset]
    /\ rules_out = NoRun
    /\ hops = NotParsed
    /\ located = NotLocated

(* the store is in place and every rule query runs *)
Healthy ==
    /\ db_exists = TRUE
    /\ broken = {}

(* one enrich.py at a time *)
EnrichSteps ==
    \/ \E limit \in Limits, alert_id \in 0..(Len(alerts) + 1) :
          EnrStart("enrich1", limit, alert_id)
    \/ EnrCacheGet("enrich1")
    \/ EnrCall("enrich1")
    \/ EnrCacheSet("enrich1")
    \/ EnrSleep("enrich1")
    \/ EnrUpdate("enrich1")

(* Spec: the life of an alert over several days.  Detection runs without   *)
(* --enrich persist the alert of a vertical scan (a key with a dst_ip),    *)
(* enrich.py enriches the rows, the operator marks them.                   *)
Init ==
    /\ Fresh
    /\ raw_text = <<>>
    /\ geo_events = {}
    /\ Healthy
    /\ ip_events = {VScan}
    /\ config = LeanConfig
    /\ net = AllAnswer

Next ==
    \/ \E dry \in BOOLEAN : ScanStart("scan1", MaxClock, FALSE, dry)
    \/ ScanInsert("scan1")
    \/ EnrichSteps
    \/ \E aid \in 0..(Len(alerts) + 1), action \in SnoozeActions : SnoozeAlert(aid, action)
    \/ Tick

Spec == Init /\ [][Next]_vars

(* SpecEnrich: enrich.py against every behaviour of the outside world,     *)
(* all within one clock reading.                                           *)
InitEnrich ==
    /\ Fresh
    /\ raw_text = <<>>
    /\ geo_events = {}
    /\ Healthy
    /\ ip_events \in {{HScan}, {VScan}}
    /\ config \in Configs
    /\ net \in Nets

NextEnrich ==
    \/ \E dry \in BOOLEAN : ScanStart("scan1", MaxClock, FALSE, dry)
    \/ ScanInsert("scan1")
    \/ EnrichSteps

SpecEnrich == InitEnrich /\ [][NextEnrich]_vars

(* SpecScan: one detection run at a time, with every option.               *)
(* A tick is a good part of a day and a run takes seconds: the clock moves *)
(* between runs.                                                           *)
InitScan ==
    /\ Fresh
    /\ raw_text = <<>>
    /\ geo_events = {}
    /\ Healthy
    /\ ip_events \in EventLogs
    /\ config = DefaultConfig
    /\ net \in Nets

NextScan ==
    \/ \E w \in SinceWindows, enrich \in BOOLEAN, dry \in BOOLEAN :
          ScanStart("scan1", w, enrich, dry)
    \/ ScanCall("scan1")
    \/ ScanSleep("scan1")
    \/ ScanInsert("scan1")
    \/ (scan["scan1"].pc = "idle" /\ Tick)

SpecScan == InitScan /\ [][NextScan]_vars

(* SpecConc: two detection runs side by side (overlapping scheduled         *)
(* invocations), without --enrich.                                          *)
InitConc ==
    /\ Fresh
    /\ raw_text = <<>>
    /\ geo_events = {}
    /\ Healthy
    /\ ip_events \in EventLogs
    /\ config = DefaultConfig
    /\ net = AllAnswer

NextConc ==
    \/ \E p \in ScanProcs, w \in SinceWindows, dry \in BOOLEAN :
          ScanStart(p, w, FALSE, dry)
    \/ \E p \in ScanProcs : ScanInsert(p)
    \/ Tick

SpecConc == InitConc /\ [][NextConc]_vars

(* SpecCache: the cache table under direct calls of cache_set, any key,    *)
(* any result, any number of times.                                        *)
Results == {"data", "None", "error"}
SetKeys == {SubjectKey(k, s) : k \in {"rdns", "pdns"}, s \in Subjects}
CacheSet(key, result) ==
    /\ cache' = cache_set(cache, key, key[1], result)
    /\ last_set' = [last_set EXCEPT ![key] =
                        [result |-> result, writes |-> Count2(last_set[key].writes)]]
    /\ UNCHANGED <<clock, env, alerts_table, alerts, scan, enr, providerCalls,
                   rules_out, raw_text, hops, geo_events, located>>

InitCache ==
    /\ Fresh
    /\ raw_text = <<>>
    /\ geo_events = {}
    /\ Healthy
    /\ ip_events = {Quiet}
    /\ config = DefaultConfig
    /\ net = AllAnswer

NextCache == \E key \in SetKeys, result \in Results : CacheSet(key, result)

SpecCache == InitCache /\ [][NextCache]_vars

(* SpecRules: the rule engine over event logs whose aggregates sit at, one *)
(* above and far above the thresholds, for one source or two, all events   *)
(* inside the window.  A shape is <<destinations, events per destination,  *)
(* distinct ports>>.                                                       *)
Shapes ==
    {<<1, 1, 1>>,
     <<HORIZONTAL_DST_IP_THRESHOLD, 1, 1>>,
     <<HORIZONTAL_DST_IP_THRESHOLD + 1, 1, 1>>,
     <<HORIZONTAL_DST_IP_THRESHOLD + 1, 10, 1>>,
     <<1, HORIZONTAL_CONN_THRESHOLD, 1>>,
     <<1, HORIZONTAL_CONN_THRESHOLD + 1, 1>>,
     <<1, VERTICAL_PORTS_THRESHOLD, VERTICAL_PORTS_THRESHOLD>>,
     <<1, VERTICAL_PORTS_THRESHOLD + 1, VERTICAL_PORTS_THRESHOLD + 1>>,
     <<1, 2 * VERTICAL_PORTS_THRESHOLD + 1, 2 * VERTICAL_PORTS_THRESHOLD + 1>>,
     <<1, REPEATED_CONN_THRESHOLD + 1, VERTICAL_PORTS_THRESHOLD + 1>>}
Flows(src, shape) ==
    [src |-> src, ndst |-> shape[1], conns |-> shape[2], ports |-> shape[3], ts |-> 0]
RuleLogs ==
    {{Flows(SrcA, a)} : a \in Shapes}
      \cup {{Flows(SrcA, a), Flows(SrcB, b)} :
               a \in Shapes,
               b \in {<<1, 1, 1>>,
                      <<HORIZONTAL_DST_IP_THRESHOLD + 1, 10, 1>>,
                      <<1, REPEATED_CONN_THRESHOLD + 1, VERTICAL_PORTS_THRESHOLD + 1>>}}
RunCaps == 1..MaxRunCap

RunAllRules(w, max_alerts) ==
    /\ db_exists
    /\ LET since == parse_since_arg(clock, w)
           called == [NoRun EXCEPT !.ran = TRUE, !.since = since,
                                   !.max_alerts = max_alerts]
       IN IF broken # {}
          THEN rules_out' = [called EXCEPT !.raised = TRUE]
          ELSE \E out \in run_all_rules(since, max_alerts) :
                 rules_out' = [called EXCEPT !.alerts = out]
    /\ UNCHANGED <<clock, env, store, scan, enr, providerCalls, last_set, raw_text, hops,
                   geo_events, located>>

InitRules ==
    /\ Fresh
    /\ raw_text = <<>>
    /\ geo_events = {}
    /\ Healthy
    /\ ip_events \in RuleLogs
    /\ config = DefaultConfig
    /\ net = AllAnswer

NextRules ==
    \/ \E w \in SinceWindows, max_alerts \in RunCaps : RunAllRules(w, max_alerts)
    \/ \E w \in SinceWindows, dry \in BOOLEAN : ScanStart("scan1", w, FALSE, dry)
    \/ ScanInsert("scan1")

SpecRules == InitRules /\ [][NextRules]_vars

(* SpecScenario: one source contacts ScenarioDsts distinct destinations,    *)
(* each of them up to MaxConnsPerDst times on one port; a second source    *)
(* may be at work, quietly or not.  Detection runs with default settings.  *)
ScenarioDsts == 60
ScenarioLogs ==
    {{Flows(SrcA, <<ScenarioDsts, c, 1>>)} \cup other :
        c \in 1..MaxConnsPerDst,
        other \in {{}, {Flows(SrcB, <<1, 1, 1>>)},
                   {Flows(SrcB, <<1, REPEATED_CONN_THRESHOLD + 1, 1>>)}}}
InitScenario ==
    /\ Fresh
    /\ raw_text = <<>>
    /\ geo_events = {}
    /\ Healthy
    /\ ip_events \in ScenarioLogs
    /\ config = DefaultConfig
    /\ net = AllAnswer

NextScenario ==
    \/ \E w \in SinceWindows : RunAllRules(w, MAX_ALERTS_PER_RUN)
    \/ \E w \in SinceWindows, dry \in BOOLEAN : ScanStart("scan1", w, FALSE, dry)
    \/ ScanInsert("scan1")
    \/ Tick

SpecScenario == InitScenario /\ [][NextScenario]_vars

(* SpecFaulty: detection and enrichment invocations on a store that may be *)
(* missing, or on which the query of one rule fails.                       *)
AllRulesLog == {Flows(SrcA, <<1, REPEATED_CONN_THRESHOLD + 1, VERTICAL_PORTS_THRESHOLD + 1>>)}
InitFaulty ==
    /\ Fresh
    /\ raw_text = <<>>
    /\ geo_events = {}
    /\ db_exists \in BOOLEAN
    /\ broken \in {{}} \cup {{r} : r \in RuleNames}
    /\ ip_events \in EventLogs \cup {AllRulesLog}
    /\ config = LeanConfig
    /\ net = AllAnswer

NextFaulty ==
    \/ \E w \in SinceWindows, enrich \in BOOLEAN, dry \in BOOLEAN :
          ScanStart("scan1", w, enrich, dry)
    \/ ScanCall("scan1")
    \/ ScanSleep("scan1")
    \/ ScanInsert("scan1")
    \/ EnrichSteps
    \/ RunAllRules(MaxClock, MaxRunCap)

SpecFaulty == InitFaulty /\ [][NextFaulty]_vars

(* SpecCreds: enrich.py before and after the operator sets the passive-DNS *)
(* credentials.  PDNS_API_URL and PDNS_API_KEY are read from the            *)
(* environment when enrich.py is loaded, so they change between            *)
(* invocations only.                                                       *)
SetCredentials ==
    /\ ~config.pdns
    /\ \A p \in EnrichProcs : enr[p].pc = "idle"
    /\ config' = [config EXCEPT !.pdns = TRUE]
    /\ UNCHANGED <<clock, ip_events, net, db_exists, broken, bench, store, scan, enr,
                   providerCalls>>

InitCreds ==
    /\ Fresh
    /\ raw_text = <<>>
    /\ geo_events = {}
    /\ Healthy
    /\ ip_events \in {{HScan}, {VScan}}
    /\ config \in {DefaultConfig, LeanConfig}
    /\ net = AllAnswer

NextCreds ==
    \/ \E dry \in BOOLEAN : ScanStart("scan1", MaxClock, FALSE, dry)
    \/ ScanInsert("scan1")
    \/ EnrichSteps
    \/ SetCredentials

SpecCreds == InitCreds /\ [][NextCreds]_vars

(* ------------------- ui.py: parse_traceroute_text ---------------------- *)
(* A line of trace output is: optional leading whitespace, an optional     *)
(* decimal numeral, optional whitespace after it, and the rest of the      *)
(* line.  A numeral is absent, has few digits (its value is kept) or has   *)
(* more digits than int() converts: CPython from 3.11 on, and the security *)
(* releases of 3.7 to 3.10, raise ValueError beyond 4300 digits, older     *)
(* interpreters convert any length.                                        *)
Numerals ==
    {[digits |-> "none", value |-> 0]}
      \cup {[digits |-> "few", value |-> v] : v \in 1..MaxHop}
      \cup {[digits |-> "many", value |-> MaxHop + 1]}
(* What follows the numeral is text; the searches of the parser tell apart *)
(* the no-response marker, an address in parentheses, an address standing  *)
(* alone, a decimal number followed by ms, and any other word.             *)
Star == [kind |-> "star", text |-> "*", ip |-> "None", ms |-> "None"]
Word == [kind |-> "word", text |-> "gw", ip |-> "None", ms |-> "None"]
BareIp == [kind |-> "ip", text |-> "10.0.0.1", ip |-> "10.0.0.1", ms |-> "None"]
ParenIp == [kind |-> "paren_ip", text |-> "(10.0.0.2)", ip |-> "10.0.0.2", ms |-> "None"]
Ms1 == [kind |-> "ms", text |-> "0.5 ms", ip |-> "None", ms |-> "0.5"]
Ms2 == [kind |-> "ms", text |-> "1.5 ms", ip |-> "None", ms |-> "1.5"]
Tokens == {Star, Word, BareIp, ParenIp, Ms1, Ms2}
Rests == {<<>>, <<Star, Star, Star>>, <<BareIp, Ms1>>}
TokenRests == UNION {[1..n -> Tokens] : n \in 1..MaxTokens}
Lines ==
    {l \in [lead : BOOLEAN, num : Numerals, sep : BOOLEAN, rest : Rests] :
        l.num.digits = "none" => ~l.sep}
Texts == UNION {[1..n -> Lines] : n \in 0..MaxLines}

(* line.strip(): leading whitespace goes, and so does whitespace after the *)
(* numeral when nothing follows it *)
Strip(l) == [l EXCEPT !.lead = FALSE, !.sep = l.sep /\ l.rest # <<>>]
(* the re.match of the stripped line: digits, whitespace, anything *)
IsHopLine(l) == l.num.digits # "none" /\ l.sep
FirstOf(rest, kind) ==
    LET at == {i \in DOMAIN rest : rest[i].kind = kind}
    IN IF at = {} THEN 0 ELSE CHOOSE i \in at : \A j \in at : i <= j
TextOf(rest) == [i \in DOMAIN rest |-> rest[i].text]
TimesOf(rest) ==
    LET tms == SelectSeq(rest, LAMBDA tok : tok.kind = "ms")
    IN [i \in DOMAIN tms |-> tms[i].ms]
NoFields == [ip |-> "None", rdns |-> "None", times |-> <<>>]
(* the bare address is looked for before the one in parentheses *)
ExtractFields_bare_first(rest) ==
    LET pm == FirstOf(rest, "paren_ip")
        im == FirstOf(rest, "ip")
    IN IF rest[1].kind = "star" THEN NoFields
       ELSE IF im # 0
            THEN [ip |-> rest[im].ip,
                  rdns |-> IF im > 1 THEN <<rest[1].text>> ELSE "None",
                  times |-> TimesOf(rest)]
       ELSE IF pm # 0
            THEN [ip |-> rest[pm].ip,
                  rdns |-> IF pm > 1 THEN TextOf(SubSeq(rest, 1, pm - 1)) ELSE "None",
                  times |-> TimesOf(rest)]
       ELSE [NoFields EXCEPT !.times = TimesOf(rest)]
ExtractFields(rest) ==
    LET pm == FirstOf(rest, "paren_ip")
        im == FirstOf(rest, "ip")
    IN IF rest[1].kind = "star" THEN NoFields
       ELSE IF pm # 0
            THEN [ip |-> rest[pm].ip,
                  rdns |-> IF pm > 1 THEN TextOf(SubSeq(rest, 1, pm - 1)) ELSE "None",
                  times |-> TimesOf(rest)]
       ELSE IF im # 0
            THEN [ip |-> rest[im].ip,
                  rdns |-> IF im > 1 THEN <<rest[1].text>> ELSE "None",
                  times |-> TimesOf(rest)]
       ELSE [NoFields EXCEPT !.times = TimesOf(rest)]
HopRecord(l) ==
    LET f == ExtractFields(l.rest)
    IN [hop |-> l.num.value, ip |-> f.ip, rdns |-> f.rdns, times |-> f.times,
        output |-> l]
parse_traceroute_text(text, int_limited) ==
    LET hopLines == SelectSeq(text, LAMBDA l : IsHopLine(Strip(l)))
    IN IF int_limited /\ \E i \in DOMAIN hopLines : hopLines[i].num.digits = "many"
       THEN [parsed |-> TRUE, raised |-> TRUE, hops |-> <<>>]
       ELSE [parsed |-> TRUE, raised |-> FALSE,
             hops |-> [i \in DOMAIN hopLines |-> HopRecord(Strip(hopLines[i]))]]

ParseTraceroute(int_limited) ==
    /\ hops' = parse_traceroute_text(raw_text, int_limited)
    /\ UNCHANGED <<clock, env, store, scan, enr, providerCalls, last_set, rules_out,
                   raw_text, geo_events, located>>

(* SpecTrace: parse_traceroute_text on every text of up to MaxLines lines. *)
InitTrace ==
    /\ Fresh
    /\ raw_text \in Texts
    /\ geo_events = {}
    /\ Healthy
    /\ ip_events = {Quiet}
    /\ config = DefaultConfig
    /\ net = AllAnswer

NextTrace == \E int_limited \in BOOLEAN : ParseTraceroute(int_limited)

SpecTrace == InitTrace /\ [][NextTrace]_vars

(* SpecFields: parse_traceroute_text on one hop line, for every remainder  *)
(* of up to MaxTokens pieces.                                              *)
HopLine(rest) ==
    [lead |-> FALSE, num |-> [digits |-> "few", value |-> 1], sep |-> TRUE, rest |-> rest]
InitFields ==
    /\ Fresh
    /\ raw_text \in {<<HopLine(rest)>> : rest \in TokenRests}
    /\ geo_events = {}
    /\ Healthy
    /\ ip_events = {Quiet}
    /\ config = DefaultConfig
    /\ net = AllAnswer

SpecFields == InitFields /\ [][NextTrace]_vars

(* SpecCorrupt: enrich.py over a cache whose entries get damaged: the      *)
(* column result_json is plain TEXT, and whatever else writes the file can *)
(* leave text in it that json.loads rejects.                               *)
BadJson == "{bad"
IsMalformed(r) == JsonLoads(r.result_json) = "RAISE"
CorruptEntry(key) ==
    /\ \E r \in cache : r.subject = key /\ ~IsMalformed(r)
    /\ cache' = {IF r.subject = key THEN [r EXCEPT !.result_json = BadJson] ELSE r : r \in cache}
    /\ UNCHANGED <<clock, env, bench, alerts_table, alerts, scan, enr, providerCalls>>

InitCorrupt ==
    /\ Fresh
    /\ raw_text = <<>>
    /\ geo_events = {}
    /\ Healthy
    /\ ip_events = {VScan}
    /\ config = LeanConfig
    /\ net \in {n \in Nets : n["rdns"] # "hang"}

NextCorrupt ==
    \/ ScanStart("scan1", MaxClock, FALSE, FALSE)
    \/ ScanInsert("scan1")
    \/ EnrichSteps
    \/ \E key \in CacheKeys : CorruptEntry(key)

SpecCorrupt == InitCorrupt /\ [][NextCorrupt]_vars

(* SpecBulk: api_enrich_bulk with alert_ids starts one enrich.py per id and *)
(* waits for none of them: the processes run side by side, each on its own *)
(* connection, on alerts of one source.  The name service may answer one   *)
(* of them and fail the other.                                             *)
NetChange ==
    /\ net' \in {[net EXCEPT !["rdns"] = o] : o \in {"answer", "fail"} \ {net["rdns"]}}
    /\ UNCHANGED <<clock, ip_events, config, db_exists, broken, bench, store, scan, enr,
                   providerCalls>>

InitBulk ==
    /\ Fresh
    /\ raw_text = <<>>
    /\ geo_events = {}
    /\ Healthy
    /\ ip_events = {Volume}
    /\ config = LeanConfig
    /\ net = AllAnswer

NextBulk ==
    \/ ScanStart("scan1", MaxClock, FALSE, FALSE)
    \/ ScanInsert("scan1")
    \/ \E p \in EnrichProcs, alert_id \in 1..Len(alerts) :
          scan["scan1"].pc = "idle" /\ EnrStart(p, MaxAlerts, alert_id)
    \/ \E p \in EnrichProcs : EnrCacheGet(p)
    \/ \E p \in EnrichProcs : EnrCall(p)
    \/ \E p \in EnrichProcs : EnrCacheSet(p)
    \/ \E p \in EnrichProcs : EnrSleep(p)
    \/ \E p \in EnrichProcs : EnrUpdate(p)
    \/ NetChange

SpecBulk == InitBulk /\ [][NextBulk]_vars

(* SpecLive: bulk enrichment started again and again, by the timer and    *)
(* from the page, each start a process of its own; every process that can  *)
(* take its next step takes it in the end.  The name service answers, or   *)
(* never does.                                                             *)
BulkStart(p) == \E limit \in Limits : EnrStart(p, limit, NULL)
EnrRun(p) ==
    EnrCacheGet(p) \/ EnrCall(p) \/ EnrCacheSet(p) \/ EnrSleep(p) \/ EnrUpdate(p)
InitLive ==
    /\ Fresh
    /\ raw_text = <<>>
    /\ geo_events = {}
    /\ Healthy
    /\ ip_events = {Volume}
    /\ config = LeanConfig
    /\ net \in {AllAnswer, [AllAnswer EXCEPT !["rdns"] = "hang"]}

NextLive ==
    \/ ScanStart("scan1", MaxClock, FALSE, FALSE)
    \/ ScanInsert("scan1")
    \/ \E p \in EnrichProcs : BulkStart(p)
    \/ \E p \in EnrichProcs : EnrRun(p)

SpecLive ==
    /\ InitLive
    /\ [][NextLive]_vars
    /\ \A p \in EnrichProcs : WF_vars(BulkStart(p)) /\ WF_vars(EnrRun(p))

(* --------------------- ui.py: geo_enrich_hops -------------------------- *)
(* An ip_events row: its endpoints, its timestamp and its geography        *)
(* columns, latitude and longitude possibly NULL.                          *)
GeoColumns ==
    [src_ip : {"10.0.0.1", "10.0.0.9"}, dst_ip : {"10.0.0.2"},
     latitude : {"NULL", "51.5"}, longitude : {"NULL", "-0.1"}, city : {"London", "Leeds"}]
GeoEventRow(c, ts) ==
    [src_ip |-> c.src_ip, dst_ip |-> c.dst_ip, timestamp |-> ts, latitude |-> c.latitude,
     longitude |-> c.longitude, city |-> c.city]
(* logs of up to MaxGeoEvents rows, one per instant *)
GeoEventSets ==
    UNION {{{GeoEventRow(log[ts], ts) : ts \in 1..n} : log \in [1..n -> GeoColumns]} :
              n \in 0..MaxGeoEvents}
(* the SELECT of geo_enrich_hops, newest first *)
GeoRows(ips, events) ==
    {e \in events : /\ (e.src_ip \in ips \/ e.dst_ip \in ips)
                    /\ e.latitude # "NULL"
                    /\ e.longitude # "NULL"}
Newest(rows) == CHOOSE r \in rows : \A q \in rows : q.timestamp <= r.timestamp
(* every caller hands over a connection whose rows are sqlite3.Row, and so *)
(* does the function when it opens one: a sqlite3.Row has no get method    *)
RowHasGet == FALSE
RECURSIVE GeoMap(_, _)
(* rows in ORDER BY timestamp DESC; for each, the source and then the      *)
(* destination get the row's geography unless they have one already; an   *)
(* r.get without the method raises                                         *)
GeoMap(rows, geo_map) ==
    IF rows = {} THEN [raised |-> FALSE, map |-> geo_map]
    ELSE IF ~RowHasGet THEN [raised |-> TRUE, map |-> geo_map]
    ELSE LET r == Newest(rows)
             g == [lat |-> r.latitude, lon |-> r.longitude, city |-> r.city]
             new == {r.src_ip, r.dst_ip} \ DOMAIN geo_map
         IN GeoMap(rows \ {r},
                   [ip \in DOMAIN geo_map \cup new |->
                       IF ip \in DOMAIN geo_map THEN geo_map[ip] ELSE g])
NoGeo == [lat |-> "unset", lon |-> "unset", city |-> "unset"]
EmptyMap == [ip \in {} |-> NoGeo]
geo_enrich_hops(hs, events) ==
    LET ips == {hs[i].ip : i \in DOMAIN hs} \ {"None"}
        built == GeoMap(GeoRows(ips, events), EmptyMap)
        geo_map == built.map
    IN IF ips = {} \/ built.raised
       THEN [i \in DOMAIN hs |-> [ip |-> hs[i].ip, geo |-> NoGeo]]
       ELSE [i \in DOMAIN hs |->
               [ip |-> hs[i].ip,
                geo |-> IF hs[i].ip \in DOMAIN geo_map THEN geo_map[hs[i].ip] ELSE NoGeo]]

(* api_traceroute_for_alert / api_run_traceroute: parse, then locate *)
GeoEnrichHops ==
    /\ hops.parsed
    /\ ~hops.raised
    /\ ~located.done
    /\ located' = [done |-> TRUE, raised |-> FALSE, hops |-> geo_enrich_hops(hops.hops, geo_events)]
    /\ UNCHANGED <<clock, env, store, scan, enr, providerCalls, last_set, rules_out,
                   raw_text, hops, geo_events>>

(* SpecGeo: traces of up to MaxLines hops, answered or not, over a log of  *)
(* up to MaxGeoEvents events.                                              *)
GeoTexts ==
    UNION {[1..n -> {HopLine(rest) :
                        rest \in {<<Star, Star, Star>>, <<BareIp, Ms1>>, <<Word, ParenIp, Ms1>>}}] :
              n \in 1..MaxLines}
InitGeo ==
    /\ Fresh
    /\ raw_text \in GeoTexts
    /\ geo_events \in GeoEventSets
    /\ Healthy
    /\ ip_events = {Quiet}
    /\ config = DefaultConfig
    /\ net = AllAnswer

NextGeo ==
    \/ \E int_limited \in BOOLEAN : ParseTraceroute(int_limited)
    \/ GeoEnrichHops

SpecGeo == InitGeo /\ [][NextGeo]_vars

(* ------------------------------ claims --------------------------------- *)
SameKeyDay(row, alert_type, src_ip, dst_ip, day) ==
    /\ row.alert_type = alert_type
    /\ row.src_ip = src_ip
    /\ row.dst_ip = dst_ip
    /\ SqlDate(row.created_at) = day

(* C1: however many non-dry-run inserts of one key (alert_type, src_ip,    *)
(* dst_ip), dst_ip absent included, fall on one calendar day, the table    *)
(* holds exactly one row with that key and that day.                       *)
C1_OneRowPerKeyPerDay ==
    \A i, j \in DOMAIN alerts :
        SameKeyDay(alerts[i], alerts[j].alert_type, alerts[j].src_ip, alerts[j].dst_ip,
                   SqlDate(alerts[j].created_at)) => i = j

(* C2: when overlapping runs insert the same key on the same day, the      *)
(* insert that finds the key's row already stored is suppressed: it leaves *)
(* the table as it is and is reported as a skipped duplicate.              *)
C2_LoserIsSkipped ==
    \A p \in ScanProcs :
        LET s == scan[p]
            a == s.all_alerts[s.i]
        IN (/\ s.pc = "insert"
            /\ ~s.dry_run
            /\ \E i \in DOMAIN alerts :
                  SameKeyDay(alerts[i], a.alert_type, a.src_ip, a.dst_ip, SqlDate(clock)))
           => /\ insert_alert(alerts, a, s.dry_run, clock).out = "SKIPPED"
              /\ insert_alert(alerts, a, s.dry_run, clock).tbl = alerts

(* C3: no step of a dry-run detection run changes the store, with or       *)
(* without --enrich and whatever the number of candidates.                 *)
C3_DryRunWritesNothing ==
    [][\A p \in ScanProcs :
          (scan'[p] # scan[p] /\ (scan[p].dry_run \/ scan'[p].dry_run))
             => UNCHANGED store]_vars
C3_Witness ==
    \E p \in ScanProcs :
        /\ scan[p].dry_run /\ scan[p].enrich
        /\ scan[p].out = "DRY RUN"
        /\ scan[p].pc = "insert"
        /\ scan[p].all_alerts[scan[p].i].enrichment # <<>>

(* C4: every alert is inserted with its enrichment absent; enrichment only *)
(* reaches a row that is already persisted.                                *)
C4_InsertedWithoutEnrichment ==
    [][Len(alerts') > Len(alerts) => alerts'[Len(alerts')].enrichment_json.isnull]_vars

(* C5: over any sequence of enrich_subject calls made one after the other, *)
(* the provider of a requested kind that goes out to the network is        *)
(* invoked exactly once per kind:subject key; later calls are cache hits   *)
(* (a stored null or error payload included) and hand out what is stored.  *)
C5_OneProviderCallPerKey ==
    /\ \A key \in CacheKeys :
          /\ providerCalls[key] <= 1
          /\ (IsExternal(key[1]) /\ \E r \in cache : r.subject = key)
                => providerCalls[key] = 1
    /\ \A i \in DOMAIN alerts : \A n \in DOMAIN alerts[i].enrichment_json.obj :
          LET en == alerts[i].enrichment_json.obj[n]
              subject == IF en.path[1] = "src" THEN alerts[i].src_ip ELSE alerts[i].dst_ip
          IN \E r \in cache :
                /\ r.subject = SubjectKey(en.path[2], subject)
                /\ r.result_json = JsonDumps(en.value)
C5_Witness ==
    \E p \in EnrichProcs :
        LET o == enr[p].ops[2]
        IN /\ o.op = "cache_hit"
           /\ o.kind = "rdns"
           /\ providerCalls[SubjectKey(o.kind, o.subject)] = 1
           /\ \E r \in cache :
                 r.subject = SubjectKey(o.kind, o.subject) /\ r.result_json = "null"
           /\ \E i \in DOMAIN alerts : alerts[i].status = "enriched"

(* C6: every external provider call of a process comes right after a       *)
(* cache lookup of its kind:subject key that missed, and is followed by    *)
(* the cache write of its result under that key.                           *)
Bracketed(ops) ==
    /\ ops[2].op = "call" => ops[1] = Op("cache_miss", ops[2].kind, ops[2].subject)
    /\ ops[1].op = "call" => ops[2] = Op("cache_set", ops[1].kind, ops[1].subject)
C6_CallsBracketedByCache ==
    /\ \A p \in ScanProcs : Bracketed(scan[p].ops)
    /\ \A p \in EnrichProcs : Bracketed(enr[p].ops)

(* C7: a process sleeps after every external call before it issues the     *)
(* next one, and never sleeps right after a cache hit.                     *)
Polite(proc) ==
    /\ proc.unslept <= 1
    /\ proc.ops[2].op = "sleep" => proc.ops[1].op # "cache_hit"
C7_DelayAfterEveryCall ==
    /\ \A p \in ScanProcs : Polite(scan[p])
    /\ \A p \in EnrichProcs : Polite(enr[p])

(* C8: provider failures are values: enrich_alerts leaves a row of its     *)
(* batch only through the update of that row, with a result for every      *)
(* requested kind of every subject the row has.                            *)
RequestedKinds == SelectSeq(Kinds, KindRequested)
PathsFor(slot) == [k \in DOMAIN RequestedKinds |-> <<slot, RequestedKinds[k]>>]
ExpectedPaths(row) ==
    (IF row.src_ip # NULL THEN PathsFor("src") ELSE <<>>)
    \o (IF row.dst_ip # NULL THEN PathsFor("dst") ELSE <<>>)
C8_NoAlertSkipped ==
    [][\A p \in EnrichProcs :
          (enr[p].pc # "idle" /\ (enr'[p].r # enr[p].r \/ enr'[p].pc = "idle"))
             => /\ enr[p].pc = "update"
                /\ [n \in DOMAIN enr[p].enrichment |-> enr[p].enrichment[n].path]
                      = ExpectedPaths(enr[p].rows[enr[p].r])
                /\ \E i \in DOMAIN alerts :
                      /\ alerts[i].id = enr[p].rows[enr[p].r].id
                      /\ alerts'[i].status = "enriched"
                      /\ alerts'[i].enrichment_json = JsonObj(enr[p].enrichment)]_vars
C8_Witness ==
    \E p \in EnrichProcs :
        /\ enr[p].r = 2
        /\ enr[p].pc = "update"
        /\ \E i \in DOMAIN alerts :
              /\ alerts[i].id = enr[p].rows[1].id
              /\ alerts[i].status = "enriched"
              /\ \E n \in DOMAIN alerts[i].enrichment_json.obj :
                    LET en == alerts[i].enrichment_json.obj[n]
                    IN /\ IsExternal(en.path[2])
                       /\ net[en.path[2]] # "answer"
                       /\ en.value = FailValue(en.path[2])

(* C9: no enrichment process is ever left waiting in an external call that *)
(* no timeout ends.                                                        *)
C9_EveryCallTimeBounded ==
    \A p \in EnrichProcs : enr[p].pc # "hung"

(* C10: created_at is the clock at the insert and no later step changes    *)
(* it: not an enrichment update, not a snooze or false-positive marking,   *)
(* not a suppressed duplicate insert.                                      *)
C10_CreatedAtSetOnce ==
    [][/\ \A i \in DOMAIN alerts :
             /\ i \in DOMAIN alerts'
             /\ alerts'[i].id = alerts[i].id
             /\ alerts'[i].created_at = alerts[i].created_at
       /\ Len(alerts') > Len(alerts) => alerts'[Len(alerts')].created_at = clock]_vars
C10_Witness ==
    /\ \E i \in DOMAIN alerts :
          /\ alerts[i].created_at < clock
          /\ ~alerts[i].enrichment_json.isnull
          /\ alerts[i].status \in {"snoozed", "false_positive"}
          /\ SqlDate(alerts[i].created_at) = SqlDate(clock)
    /\ scan["scan1"].out = "SKIPPED"

(* C11: the cache holds at most one entry per subject key; cache_get of a  *)
(* key returns the result of the latest cache_set of that key, and finds   *)
(* nothing for a key never set; a cache_set of one key therefore changes   *)
(* what no other key reads back.                                           *)
C11_LastWriteWins ==
    \A key \in CacheKeys :
        /\ Cardinality({r \in cache : r.subject = key}) <= 1
        /\ cache_get(cache, key) =
              IF last_set[key] = Unset THEN [found |-> FALSE, result |-> "None"]
              ELSE [found |-> TRUE, result |-> last_set[key].result]
C11_Witness ==
    \E k1, k2 \in SetKeys :
        /\ k1 # k2
        /\ last_set[k1].writes = 2 /\ last_set[k1].result = "None"
        /\ last_set[k2].writes = 1 /\ last_set[k2].result = "error"
        /\ Cardinality(cache) = 2

(* C12: a source is flagged horizontal_scan iff it reached more than        *)
(* HORIZONTAL_DST_IP_THRESHOLD destinations or made more than              *)
(* HORIZONTAL_CONN_THRESHOLD connections, a (src, dst) pair vertical_scan   *)
(* iff it saw more than VERTICAL_PORTS_THRESHOLD ports, a source            *)
(* high_connection_volume iff it made more than REPEATED_CONN_THRESHOLD     *)
(* connections; events before the window flag nothing.  Stated of the list *)
(* of a detection run and of run_all_rules when its cap leaves room for    *)
(* every source.                                                           *)
Flagged(list, alert_type, src_ip, dst_ip) ==
    \E i \in DOMAIN list :
        /\ list[i].alert_type = alert_type
        /\ list[i].src_ip = src_ip
        /\ list[i].dst_ip = dst_ip
StrictThresholds(list, since) ==
    \A g \in ip_events :
        /\ Flagged(list, "horizontal_scan", g.src, NULL)
             <=> /\ g.ts >= since
                 /\ \/ g.ndst > HORIZONTAL_DST_IP_THRESHOLD
                    \/ g.ndst * g.conns > HORIZONTAL_CONN_THRESHOLD
        /\ \A d \in 1..g.ndst :
              Flagged(list, "vertical_scan", g.src, DstBase + d)
                <=> (g.ts >= since /\ g.ports > VERTICAL_PORTS_THRESHOLD)
        /\ Flagged(list, "high_connection_volume", g.src, NULL)
             <=> (g.ts >= since /\ g.ndst * g.conns > REPEATED_CONN_THRESHOLD)
C12_StrictThresholds ==
    /\ (rules_out.ran /\ rules_out.max_alerts >= Cardinality(ip_events))
          => StrictThresholds(rules_out.alerts, rules_out.since)
    /\ \A p \in ScanProcs :
          scan[p].pc = "insert" => StrictThresholds(scan[p].all_alerts, scan[p].since)
C12_Witness ==
    /\ rules_out.ran
    /\ rules_out.max_alerts >= Cardinality(ip_events)
    /\ \E g, h \in ip_events :
          /\ g.ndst = HORIZONTAL_DST_IP_THRESHOLD /\ g.conns = 1
          /\ ~Flagged(rules_out.alerts, "horizontal_scan", g.src, NULL)
          /\ h.ndst = HORIZONTAL_DST_IP_THRESHOLD + 1
          /\ Flagged(rules_out.alerts, "horizontal_scan", h.src, NULL)

(* C13: every candidate score and every stored score is an integer in      *)
(* 0..100, equal to dst_count + conn_count div 10 (horizontal), ports       *)
(* (vertical) or total_conns div 2 (high volume) cut at 100, and of two     *)
(* alerts of one rule the one with the larger aggregates never scores less.*)
ExpectedScore(alert_type, g) ==
    LET raw == CASE alert_type = "horizontal_scan" -> g.ndst + (g.ndst * g.conns) \div 10
                 [] alert_type = "vertical_scan" -> g.ports
                 [] alert_type = "high_connection_volume" -> (g.ndst * g.conns) \div 2
    IN IF raw > 100 THEN 100 ELSE raw
NoLarger(alert_type, g, h) ==
    CASE alert_type = "horizontal_scan" ->
            g.ndst <= h.ndst /\ g.ndst * g.conns <= h.ndst * h.conns
      [] alert_type = "vertical_scan" -> g.ports <= h.ports
      [] alert_type = "high_connection_volume" -> g.ndst * g.conns <= h.ndst * h.conns
ScoresRight(list) ==
    \A i \in DOMAIN list :
        LET g == CHOOSE x \in ip_events : x.src = list[i].src_ip
        IN /\ list[i].score \in 0..100
           /\ list[i].score = ExpectedScore(list[i].alert_type, g)
           /\ \A j \in DOMAIN list :
                 LET h == CHOOSE x \in ip_events : x.src = list[j].src_ip
                 IN (/\ list[j].alert_type = list[i].alert_type
                     /\ NoLarger(list[i].alert_type, g, h))
                    => list[i].score <= list[j].score
C13_ScoresBoundedMonotone ==
    /\ ScoresRight(rules_out.alerts)
    /\ \A p \in ScanProcs : ScoresRight(scan[p].all_alerts)
    /\ ScoresRight(alerts)
C13_Witness ==
    /\ \E i \in DOMAIN alerts :
          /\ alerts[i].alert_type = "horizontal_scan"
          /\ alerts[i].score = 100
          /\ LET g == CHOOSE x \in ip_events : x.src = alerts[i].src_ip
             IN g.ndst + (g.ndst * g.conns) \div 10 > 100
    /\ \E i, j \in DOMAIN rules_out.alerts :
          /\ rules_out.alerts[i].alert_type = rules_out.alerts[j].alert_type
          /\ rules_out.alerts[i].score < rules_out.alerts[j].score

(* C14: the candidate list run_all_rules returns holds at most max_alerts  *)
(* candidates.                                                             *)
C14_CandidatesWithinCap ==
    rules_out.ran => Len(rules_out.alerts) <= rules_out.max_alerts

(* C15: the list a run hands to insert_alert, and the list run_all_rules   *)
(* returns, is the horizontal results, then the vertical results, then the *)
(* high-volume results, and no two of its candidates have the same         *)
(* (alert_type, src_ip, dst_ip).                                           *)
KeysOf(list) == [i \in DOMAIN list |-> AlertKey(list[i])]
NoKeyTwice(list) ==
    \A i, j \in DOMAIN list : AlertKey(list[i]) = AlertKey(list[j]) => i = j
C15_ConcatenatedDistinctKeys ==
    /\ rules_out.ran =>
          /\ NoKeyTwice(rules_out.alerts)
          /\ rules_out.alerts \in
                {h \o v \o r :
                   h \in rules_detect_horizontal_scans(rules_out.since, rules_out.max_alerts),
                   v \in rules_detect_vertical_scans(rules_out.since, rules_out.max_alerts),
                   r \in rules_detect_repeated_connections(rules_out.since,
                                                          rules_out.max_alerts)}
    /\ \A p \in ScanProcs :
          scan[p].pc = "insert" =>
             /\ NoKeyTwice(scan[p].all_alerts)
             /\ KeysOf(scan[p].all_alerts) \in
                   {KeysOf(h \o v \o r) :
                      h \in detect_horizontal_scans(scan[p].since),
                      v \in detect_vertical_scans(scan[p].since),
                      r \in detect_repeated_connections(scan[p].since)}
C15_Witness ==
    /\ rules_out.ran
    /\ Len(rules_out.alerts) >= 4
    /\ \E i, j, k \in DOMAIN rules_out.alerts :
          /\ i < j /\ j < k
          /\ rules_out.alerts[i].alert_type = "horizontal_scan"
          /\ rules_out.alerts[j].alert_type = "vertical_scan"
          /\ rules_out.alerts[k].alert_type = "high_connection_volume"
    /\ scan["scan1"].pc = "insert"
    /\ scan["scan1"].i = 2
    /\ Len(scan["scan1"].all_alerts) >= 4

(* C16: when a detection run starts on a store where the query of one rule *)
(* fails, the candidates of the other rules are still on the run's list.   *)
ListsAll(list, results) ==
    \A res \in results : \A i \in DOMAIN res :
        Flagged(list, res[i].alert_type, res[i].src_ip, res[i].dst_ip)
C16_OtherRulesStillRun ==
    [][\A p \in ScanProcs :
          (db_exists /\ scan[p].pc = "idle" /\ scan'[p] # scan[p]) =>
             LET s == scan'[p]
             IN /\ "horizontal_scan" \notin broken
                      => ListsAll(s.all_alerts, detect_horizontal_scans(s.since))
                /\ "vertical_scan" \notin broken
                      => ListsAll(s.all_alerts, detect_vertical_scans(s.since))
                /\ "high_connection_volume" \notin broken
                      => ListsAll(s.all_alerts, detect_repeated_connections(s.since))]_vars

(* C17: while the database file is missing, every detection or enrichment  *)
(* invocation ends at once with "DB not found": no candidate list, no      *)
(* external call, no table, row or cache entry written, no file created.   *)
C17_NoWorkWithoutStore ==
    [][~db_exists =>
          /\ UNCHANGED <<store, providerCalls, db_exists>>
          /\ \A p \in ScanProcs :
                /\ scan'[p].pc = "idle"
                /\ scan'[p].all_alerts = <<>>
                /\ scan'[p].ops = <<NoOp, NoOp>>
                /\ scan'[p] # scan[p] => scan'[p].out = "DB not found"
          /\ \A p \in EnrichProcs :
                /\ enr'[p].pc = "idle"
                /\ enr'[p].ops = <<NoOp, NoOp>>
                /\ enr'[p] # enr[p] => enr'[p].out = "DB not found"]_vars
C17_Witness ==
    /\ ~db_exists
    /\ scan["scan1"].out = "DB not found"
    /\ enr["enrich1"].out = "DB not found"
    /\ ~alerts_table
    /\ alerts = <<>>
    /\ cache = {}

(* C18: no invocation enriches more alerts than the largest cap an         *)
(* invocation can be given: not the batch of enrich_alerts, not a          *)
(* detection run with --enrich.                                            *)
RunLevelCap == CHOOSE c \in Limits : \A d \in Limits : d <= c
C18_EnrichedWithinCap ==
    /\ \A p \in EnrichProcs : Len(enr[p].rows) <= RunLevelCap
    /\ \A p \in ScanProcs :
          (scan[p].enrich /\ scan[p].pc \in {"sleep", "insert"}) => scan[p].i <= RunLevelCap

(* C19: without credentials the passive-DNS service is never called, and   *)
(* what an enrichment without credentials leaves behind does not stand in  *)
(* for a lookup later: with credentials, a passive-DNS result taken from   *)
(* the cache is the result of a lookup that was made.                      *)
C19_SkipLeavesNoTrace ==
    /\ ~config.pdns => \A s \in Subjects : providerCalls[SubjectKey("pdns", s)] = 0
    /\ \A p \in EnrichProcs :
          LET o == enr[p].ops[2]
          IN (config.pdns /\ o.op = "cache_hit" /\ o.kind = "pdns")
                => providerCalls[SubjectKey("pdns", o.subject)] >= 1

(* C20: parsing never raises, and the hops returned are, in order, one for *)
(* each line that starts (after optional whitespace) with a numeral,       *)
(* whitespace and a remainder, each with that numeral as its hop number    *)
(* and the line as it was given.                                           *)
C20_OneHopPerHopLine ==
    hops.parsed =>
       LET expected == SelectSeq(raw_text,
                          LAMBDA l : l.num.digits # "none" /\ l.sep /\ l.rest # <<>>)
       IN /\ ~hops.raised
          /\ Len(hops.hops) = Len(expected)
          /\ \A i \in DOMAIN expected :
                /\ hops.hops[i].hop = expected[i].num.value
                /\ hops.hops[i].output = expected[i]

(* C21: the fields of a hop follow a fixed precedence.  A remainder that   *)
(* begins with the no-response marker gives no ip, no rdns and no times.   *)
(* Otherwise the first address in parentheses, if there is one, is the ip  *)
(* and the text before it, if any, is the name; failing that the first     *)
(* bare address is the ip and the first word before it, if any, is the     *)
(* name; and the times are the decimal ms numbers in order of appearance.  *)
FieldsRight(rest, h) ==
    LET parens == {i \in DOMAIN rest : rest[i].kind = "paren_ip"}
        bares == {i \in DOMAIN rest : rest[i].kind = "ip"}
        mss == {i \in DOMAIN rest : rest[i].kind = "ms"}
    IN IF rest[1] = Star
       THEN h.ip = "None" /\ h.rdns = "None" /\ h.times = <<>>
       ELSE /\ \A i \in parens :
                  (\A j \in parens : i <= j) =>
                     /\ h.ip = rest[i].ip
                     /\ IF i = 1 THEN h.rdns = "None"
                        ELSE /\ Len(h.rdns) = i - 1
                             /\ \A j \in 1..(i - 1) : h.rdns[j] = rest[j].text
            /\ parens = {} =>
                  \A i \in bares :
                     (\A j \in bares : i <= j) =>
                        /\ h.ip = rest[i].ip
                        /\ h.rdns = IF i = 1 THEN "None" ELSE <<rest[1].text>>
            /\ (parens = {} /\ bares = {}) => h.ip = "None" /\ h.rdns = "None"
            /\ Len(h.times) = Cardinality(mss)
            /\ \A i, j \in mss :
                  LET ki == Cardinality({k \in mss : k <= i})
                      kj == Cardinality({k \in mss : k <= j})
                  IN h.times[ki] = rest[i].ms /\ (i < j => ki < kj)
C22_HopsLocated ==
    located.done =>
        /\ ~located.raised
        /\ \A i \in DOMAIN located.hops :
              LET h == located.hops[i]
                  rows == GeoRows({h.ip}, geo_events)
              IN IF h.ip = "None" \/ rows = {}
                 THEN h.geo = NoGeo
                 ELSE /\ h.geo.lat = Newest(rows).latitude
                      /\ h.geo.lon = Newest(rows).longitude
                      /\ h.geo.city = Newest(rows).city

(* C23: a stored alert is never deleted and keeps its alert_type, src_ip,   *)
(* dst_ip, score and evidence.  A step changes of a stored row at most its *)
(* status, or its enrichment together with its status, the latter only     *)
(* when an enrichment process writes its update.                           *)
SameIdentity(old, new) ==
    /\ new.id = old.id
    /\ new.alert_type = old.alert_type
    /\ new.src_ip = old.src_ip
    /\ new.dst_ip = old.dst_ip
    /\ new.score = old.score
    /\ new.evidence_json = old.evidence_json
C23_AlertsKeepIdentity ==
    [][\A i \in DOMAIN alerts :
          /\ i \in DOMAIN alerts'
          /\ SameIdentity(alerts[i], alerts'[i])
          /\ alerts'[i] = [alerts[i] EXCEPT !.status = alerts'[i].status,
                                             !.enrichment_json = alerts'[i].enrichment_json]
          /\ alerts'[i].enrichment_json # alerts[i].enrichment_json =>
                /\ \E p \in EnrichProcs : enr[p].pc = "update"
                /\ alerts'[i].status = "enriched"]_vars
(* an alert that has been enriched and then marked by the operator, after  *)
(* a later run has met it again                                            *)
C23_Witness ==
    /\ \E i \in DOMAIN alerts :
          /\ ~alerts[i].enrichment_json.isnull
          /\ alerts[i].status = "false_positive"
          /\ alerts[i].evidence_json # SqlNull
          /\ alerts[i].score > 0
    /\ scan["scan1"].out = "SKIPPED"
    /\ \A p \in EnrichProcs : enr[p].pc = "idle"

(* C24: an entry whose text is not JSON counts as no entry.  The lookup of *)
(* its key is a miss and the process goes on to the provider of the same   *)
(* row; the write that follows leaves exactly one entry for the key, with  *)
(* the new result; and a process leaves a row only through its update.    *)
EntryOf(tbl, key) == {r \in tbl : r.subject = key}
C24_MalformedIsAbsent ==
    [][\A p \in EnrichProcs :
          LET e == enr[p]
              f == enr'[p]
          IN /\ (e.pc = "get" /\ f # e
                   /\ \E r \in EntryOf(cache, SubjectKey(Kinds[e.k], Subject(e))) : IsMalformed(r))
                  => /\ f.pc = "call"
                     /\ f.r = e.r
                     /\ f.ops[2] = Op("cache_miss", Kinds[e.k], Subject(e))
             /\ (e.pc = "set" /\ f # e)
                  => EntryOf(cache', SubjectKey(Kinds[e.k], Subject(e)))
                        = {[subject |-> SubjectKey(Kinds[e.k], Subject(e)), kind |-> Kinds[e.k],
                            result_json |-> JsonDumps(e.val)]}
             /\ (e.pc # "idle" /\ (f.r # e.r \/ f.pc = "idle")) => e.pc = "update"]_vars
(* the provider has been called a second time for a key, which only a      *)
(* damaged entry brings about, and the entry is whole again                *)
C24_Witness ==
    \E key \in CacheKeys :
        /\ providerCalls[key] = 2
        /\ \E r \in EntryOf(cache, key) : ~IsMalformed(r)
        /\ \E i \in DOMAIN alerts : alerts[i].status = "enriched"
        /\ \A p \in EnrichProcs : enr[p].pc = "idle"

(* C25: with one source contacting ScenarioDsts (60) distinct destinations *)
(* inside the window, a detection run whose since covers the window has    *)
(* exactly one candidate: horizontal_scan, that source, no dst_ip, score   *)
(* min(100, 60 + conn_count div 10).                                       *)
IsScenarioAlert(a) ==
    /\ a.alert_type = "horizontal_scan"
    /\ a.src_ip = SrcA
    /\ a.dst_ip = NULL
    /\ a.score = Min(100, ScenarioDsts + ConnCount(ip_events, SrcA) \div 10)
CoversWindow(since) == \A g \in ip_events : g.ts >= since
C25_ScenarioOneCandidate ==
    /\ (rules_out.ran /\ CoversWindow(rules_out.since))
          => Len(rules_out.alerts) = 1 /\ IsScenarioAlert(rules_out.alerts[1])
    /\ \A p \in ScanProcs :
          (scan[p].pc # "idle" /\ CoversWindow(scan[p].since))
             => Len(scan[p].all_alerts) = 1 /\ IsScenarioAlert(scan[p].all_alerts[1])
(* C25 as amended: the same, provided the source makes no more than        *)
(* REPEATED_CONN_THRESHOLD connections in all and reaches no more than     *)
(* VERTICAL_PORTS_THRESHOLD ports of any destination, and no other source  *)
(* crosses a threshold.                                                    *)
OnlyHorizontal ==
    \A g \in ip_events :
        /\ g.ports <= VERTICAL_PORTS_THRESHOLD
        /\ g.ndst * g.conns <= REPEATED_CONN_THRESHOLD
        /\ g.src # SrcA => /\ g.ndst <= HORIZONTAL_DST_IP_THRESHOLD
                           /\ g.ndst * g.conns <= HORIZONTAL_CONN_THRESHOLD
C25_ScenarioAmended == OnlyHorizontal => C25_ScenarioOneCandidate
C25_Witness ==
    /\ OnlyHorizontal
    /\ ConnCount(ip_events, SrcA) > ScenarioDsts
    /\ rules_out.ran
    /\ CoversWindow(rules_out.since)
    /\ Len(rules_out.alerts) = 1
    /\ scan["scan1"].pc = "insert"
    /\ CoversWindow(scan["scan1"].since)
    /\ Len(scan["scan1"].all_alerts) = 1
    /\ scan["scan1"].all_alerts[1].score = rules_out.alerts[1].score

(* C26: in every run the alerts of one rule come in descending order of    *)
(* the rule's aggregates (dst_count then conn_count; ports; total_conns),  *)
(* number at most the limit of the rule's query, and are all the groups    *)
(* over the threshold when these fit, else those with the highest          *)
(* aggregates.                                                             *)
Ev(a, name) ==
    LET at == {i \in DOMAIN a.evidence : a.evidence[i].path = <<name>>}
    IN a.evidence[CHOOSE i \in at : TRUE].value
OfRule(list, rule) == SelectSeq(list, LAMBDA a : a.alert_type = rule)
Above(rule, a, b) ==
    CASE rule = "horizontal_scan" ->
           \/ Ev(a, "dst_count") > Ev(b, "dst_count")
           \/ Ev(a, "dst_count") = Ev(b, "dst_count") /\ Ev(a, "conn_count") > Ev(b, "conn_count")
      [] rule = "vertical_scan" -> Ev(a, "ports") > Ev(b, "ports")
      [] rule = "high_connection_volume" -> Ev(a, "total_conns") > Ev(b, "total_conns")
Qualifying(rule, since) ==
    CASE rule = "horizontal_scan" -> {HorizAlert(r, since) : r \in HorizRows(since)}
      [] rule = "vertical_scan" -> {VertAlert(r, since) : r \in VertRows(since)}
      [] rule = "high_connection_volume" -> {RepAlert(r, since) : r \in RepRows(since)}
TopOfRule(list, rule, since, limit) ==
    LET seg == OfRule(list, rule)
        kept == {AlertKey(seg[i]) : i \in DOMAIN seg}
        all == Qualifying(rule, since)
    IN /\ Len(seg) <= limit
       /\ Len(seg) = Min(limit, Cardinality(all))
       /\ \A i, j \in DOMAIN seg : i < j => ~Above(rule, seg[j], seg[i])
       /\ \A i \in DOMAIN seg : \E q \in all : AlertKey(q) = AlertKey(seg[i])
       /\ \A q \in all : AlertKey(q) \notin kept =>
              \A i \in DOMAIN seg : ~Above(rule, q, seg[i])
C27_EnrichedOverridesMarking ==
    [][/\ \A p \in EnrichProcs :
             (enr[p].pc = "update" /\ enr'[p] # enr[p])
                => \A i \in DOMAIN alerts :
                      alerts[i].id = enr[p].rows[enr[p].r].id
                         => alerts'[i].status = "enriched"
       /\ \A i \in DOMAIN alerts' :
             alerts'[i].status = "enriched" => ~NeedsEnrichment(alerts'[i])]_vars
(* enrich_alerts, started in bulk, is about to write the update of a row   *)
(* that the operator has marked in the meantime                            *)
C27_Witness ==
    \E p \in EnrichProcs :
        /\ enr[p].pc = "update"
        /\ enr[p].enrichment # <<>>
        /\ \E i \in DOMAIN alerts :
              /\ alerts[i].id = enr[p].rows[enr[p].r].id
              /\ alerts[i].status \in {"snoozed", "false_positive"}
              /\ NeedsEnrichment(alerts[i])

(* C28: with enrichment processes side by side the cache never holds more  *)
(* than one entry for a key, and an entry is the result of the process     *)
(* that wrote the key last.                                                *)
C28_OneEntryLastWriter ==
    [][/\ \A key \in CacheKeys : Cardinality(EntryOf(cache', key)) <= 1
       /\ \A p \in EnrichProcs :
             LET e == enr[p]
                 key == SubjectKey(Kinds[e.k], Subject(e))
             IN (e.pc = "set" /\ enr'[p] # e)
                  => EntryOf(cache', key)
                        = {[subject |-> key, kind |-> Kinds[e.k],
                            result_json |-> JsonDumps(e.val)]}]_vars
(* both processes have missed and called the name service for one subject, *)
(* with different results; the one that wrote first is writing no more and *)
(* the entry is the result of the other                                    *)
C28_Witness ==
    \E key \in CacheKeys :
        /\ key[1] = "rdns"
        /\ providerCalls[key] = 2
        /\ enr["enrich1"].pc = "sleep"
        /\ enr["enrich2"].pc = "sleep"
        /\ enr["enrich1"].k = 1
        /\ enr["enrich2"].k = 1
        /\ Subject(enr["enrich1"]) = key[2]
        /\ Subject(enr["enrich2"]) = key[2]
        /\ enr["enrich1"].val # enr["enrich2"].val
        /\ Cardinality(EntryOf(cache, key)) = 1

(* C29: a bulk invocation takes rows without enrichment only, the newest   *)
(* first and no more than the largest limit; a row with enrichment never   *)
(* loses it, and no bulk invocation writes the enrichment of a row that    *)
(* has one; and with bulk invocations going on, in the end no row is       *)
(* without enrichment.                                                     *)
RowOf(id) == alerts[CHOOSE i \in DOMAIN alerts : alerts[i].id = id]
BulkSelection(p) ==
    (enr[p].pc = "idle" /\ enr'[p].pc # "idle")
       => LET rows == enr'[p].rows
              ids == {rows[n].id : n \in DOMAIN rows}
          IN /\ Len(rows) <= RunLevelCap
             /\ \A n \in DOMAIN rows : NeedsEnrichment(RowOf(rows[n].id))
             /\ \A m, n \in DOMAIN rows :
                   m < n => RowOf(rows[m].id).created_at >= RowOf(rows[n].id).created_at
             /\ \A i \in DOMAIN alerts :
                   (NeedsEnrichment(alerts[i]) /\ alerts[i].id \notin ids)
                      => \A n \in DOMAIN rows :
                            RowOf(rows[n].id).created_at >= alerts[i].created_at
EnrichedOnce(p) ==
    (enr[p].pc = "update" /\ enr'[p] # enr[p])
       => NeedsEnrichment(RowOf(enr[p].rows[enr[p].r].id))
C29_BulkDrainsBacklog ==
    /\ [][/\ \A p \in EnrichProcs : BulkSelection(p) /\ EnrichedOnce(p)
          /\ \A i \in DOMAIN alerts :
                ~NeedsEnrichment(alerts[i]) => ~NeedsEnrichment(alerts'[i])]_vars
    /\ <>[](\A i \in DOMAIN alerts : ~NeedsEnrichment(alerts[i]))

====
